---- MODULE Spec2Model ----
(***************************************************************************)
(* Model of src/tarefa_prioridade.py: Tarefa, FilaTarefas and              *)
(* GerenciadorTarefas (a strict-priority manager with one FIFO queue per   *)
(* priority class).  A caller constructs Tarefa objects and calls the      *)
(* five public methods of one GerenciadorTarefas, one call at a time.      *)
(***************************************************************************)
EXTENDS Integers, Sequences, FiniteSets, TLC

\* Number of Tarefa objects the caller constructs in one run.
MaxTarefas == 3

\* Length of the description preview printed by listar_todas_tarefas.
PreviewLen == 50

\* The (nome, descricao) pairs the caller draws from; a descricao is a
\* sequence of characters.
Entradas ==
  { [nome |-> "A", descricao |-> <<"x">>],
    [nome |-> "B", descricao |-> <<"x", "y">>] }

\* The prioridade values the caller draws from: the three recognized classes
\* and one unrecognized value.
Prioridades == {1, 2, 3, 99}

\* Python's None.
None == [tipo |-> "None"]

\* Tarefa.__init__: the three fields, plus the identity of the object (id).
Tarefa(id, nome, descricao, prioridade) ==
  [tipo |-> "Tarefa", id |-> id, nome |-> nome, descricao |-> descricao,
   prioridade |-> prioridade]

----------------------------------------------------------------------------
(* FilaTarefas: the object is its list self.tarefas, a sequence.           *)

\* FilaTarefas.__init__
FilaTarefas == << >>

\* Faulty variant of esta_vazia: off by one, a list of one task counts as empty.
esta_vazia_ate_um(tarefas) == Len(tarefas) <= 1

\* FilaTarefas.esta_vazia
esta_vazia(tarefas) == Len(tarefas) = 0

\* FilaTarefas.tamanho
tamanho(tarefas) == Len(tarefas)

\* Faulty variant of adicionar: stores the task with its descricao cut to the
\* first character.
adicionar_truncando(tarefas, tarefa) ==
  Append(tarefas, [tarefa EXCEPT !.descricao = SubSeq(@, 1, 1)])

\* Faulty variant of adicionar: insert(0, tarefa) puts the task at the front.
adicionar_no_inicio(tarefas, tarefa) == <<tarefa>> \o tarefas

\* FilaTarefas.adicionar: self.tarefas.append(tarefa)
adicionar(tarefas, tarefa) == Append(tarefas, tarefa)

\* Faulty variant of remover: pop() takes the last task, not the first.
remover_do_fim(tarefas) ==
  IF Len(tarefas) # 0
  THEN [ret |-> tarefas[Len(tarefas)],
        tarefas |-> SubSeq(tarefas, 1, Len(tarefas) - 1)]
  ELSE [ret |-> None, tarefas |-> tarefas]

\* Faulty variant of remover: returns the first task and leaves it in the list.
remover_sem_retirar(tarefas) ==
  IF Len(tarefas) # 0
  THEN [ret |-> tarefas[1], tarefas |-> tarefas]
  ELSE [ret |-> None, tarefas |-> tarefas]

\* FilaTarefas.remover: pop(0) when not empty, else None; the result and the
\* list left behind.
remover(tarefas) ==
  IF ~esta_vazia(tarefas)
  THEN [ret |-> tarefas[1], tarefas |-> SubSeq(tarefas, 2, Len(tarefas))]
  ELSE [ret |-> None, tarefas |-> tarefas]

\* Faulty variant of list.pop(0): hands out the first element and leaves it
\* in the list.
pop0_sem_retirar(tarefas) ==
  IF Len(tarefas) = 0
  THEN [ret |-> [tipo |-> "IndexError"], tarefas |-> tarefas]
  ELSE [ret |-> tarefas[1], tarefas |-> tarefas]

\* self.tarefas.pop(0), one indivisible operation on the list: the first
\* element and the list without it, IndexError on an empty list.
pop0(tarefas) ==
  IF Len(tarefas) = 0
  THEN [ret |-> [tipo |-> "IndexError"], tarefas |-> tarefas]
  ELSE [ret |-> tarefas[1], tarefas |-> SubSeq(tarefas, 2, Len(tarefas))]

\* Faulty variant of frente: self.tarefas[-1], the last task of the list.
frente_do_fim(tarefas) ==
  IF Len(tarefas) # 0 THEN tarefas[Len(tarefas)] ELSE None

\* FilaTarefas.frente: self.tarefas[0] when not empty, else None.
frente(tarefas) ==
  IF ~esta_vazia(tarefas) THEN tarefas[1] ELSE None

----------------------------------------------------------------------------
(* GerenciadorTarefas: the object is its dict self.filas_prioridades, a    *)
(* function from the keys to the lists of the queues.  Every method is an  *)
(* operator from the dict to the value returned (ret), the dict it leaves  *)
(* (filas) and the lines it prints (saida).                                *)

\* Faulty variant of __init__: the queue of class 3 is missing.
GerenciadorTarefas_sem_baixa == [prioridade \in {1, 2} |-> FilaTarefas]

\* GerenciadorTarefas.__init__: the dict {1: FilaTarefas(), 2: ..., 3: ...}.
\* The method takes no argument besides self.
GerenciadorTarefas == [prioridade \in {1, 2, 3} |-> FilaTarefas]

\* Faulty variant of sorted: descending order (reverse=True).
RECURSIVE sorted_decrescente(_)
sorted_decrescente(S) ==
  IF S = {} THEN << >>
  ELSE LET m == CHOOSE x \in S : \A y \in S : x >= y
       IN  <<m>> \o sorted_decrescente(S \ {m})

\* Python's sorted() on a set of integers: the ascending sequence.
RECURSIVE sorted(_)
sorted(S) ==
  IF S = {} THEN << >>
  ELSE LET m == CHOOSE x \in S : \A y \in S : x <= y
       IN  <<m>> \o sorted(S \ {m})

\* Python's sum() over the values f[k], k in S.
RECURSIVE sum(_, _)
sum(f, S) ==
  IF S = {} THEN 0
  ELSE LET k == CHOOSE x \in S : TRUE
       IN  f[k] + sum(f, S \ {k})

\* Faulty variant of adicionar_tarefa: no validity check, an unknown prioridade
\* gets a queue of its own (dict.setdefault).
adicionar_tarefa_setdefault(filas, tarefa) ==
  LET p == tarefa.prioridade
      com_fila == [k \in DOMAIN filas \cup {p} |->
                     IF k \in DOMAIN filas THEN filas[k] ELSE << >>]
  IN  [ret |-> TRUE,
       filas |-> [com_fila EXCEPT ![p] = Append(@, tarefa)],
       saida |-> << [msg |-> "Tarefa adicionada", nome |-> tarefa.nome,
                     prioridade |-> p] >>]

\* Faulty variant of adicionar_tarefa: valid tasks all go to the first queue.
adicionar_tarefa_fila_errada(filas, tarefa) ==
  IF tarefa.prioridade \notin DOMAIN filas
  THEN [ret |-> FALSE, filas |-> filas,
        saida |-> << [msg |-> "Erro: Prioridade invalida",
                      prioridade |-> tarefa.prioridade] >>]
  ELSE [ret |-> TRUE,
        filas |-> [filas EXCEPT ![1] = Append(@, tarefa)],
        saida |-> << [msg |-> "Tarefa adicionada", nome |-> tarefa.nome,
                      prioridade |-> tarefa.prioridade] >>]

\* GerenciadorTarefas.adicionar_tarefa
adicionar_tarefa(filas, tarefa) ==
  IF tarefa.prioridade \notin DOMAIN filas
  THEN [ret |-> FALSE, filas |-> filas,
        saida |-> << [msg |-> "Erro: Prioridade invalida",
                      prioridade |-> tarefa.prioridade] >>]
  ELSE [ret |-> TRUE,
        filas |-> [filas EXCEPT ![tarefa.prioridade] = adicionar(@, tarefa)],
        saida |-> << [msg |-> "Tarefa adicionada", nome |-> tarefa.nome,
                      prioridade |-> tarefa.prioridade] >>]

\* Faulty variant of the loop of proxima_tarefa: gives up after the first queue
\* it looks at (the return None inside the loop).
proxima_so_primeira_fila(filas, chaves, i) ==
  IF i > Len(chaves) \/ Len(filas[chaves[i]]) = 0
  THEN [ret |-> None, filas |-> filas,
        saida |-> << [msg |-> "Nao ha tarefas pendentes"] >>]
  ELSE [ret |-> filas[chaves[i]][1],
        filas |-> [filas EXCEPT ![chaves[i]] = Tail(@)],
        saida |-> << >>]

\* The for loop of proxima_tarefa from position i of the sorted keys.
RECURSIVE proxima_tarefa_de(_, _, _)
proxima_tarefa_de(filas, chaves, i) ==
  IF i > Len(chaves)
  THEN [ret |-> None, filas |-> filas,
        saida |-> << [msg |-> "Nao ha tarefas pendentes"] >>]
  ELSE LET prioridade == chaves[i]
           fila == filas[prioridade]
       IN  IF ~esta_vazia(fila)
           THEN [ret |-> remover(fila).ret,
                 filas |-> [filas EXCEPT ![prioridade] = remover(fila).tarefas],
                 saida |-> << >>]
           ELSE proxima_tarefa_de(filas, chaves, i + 1)

\* GerenciadorTarefas.proxima_tarefa
proxima_tarefa(filas) == proxima_tarefa_de(filas, sorted(DOMAIN filas), 1)

\* Faulty variant of the loop of visualizar_proxima_tarefa: calls remover where
\* the code calls frente.
RECURSIVE visualizar_com_remover(_, _, _)
visualizar_com_remover(filas, chaves, i) ==
  IF i > Len(chaves)
  THEN [ret |-> None, filas |-> filas,
        saida |-> << [msg |-> "Nao ha tarefas pendentes"] >>]
  ELSE IF Len(filas[chaves[i]]) # 0
       THEN [ret |-> filas[chaves[i]][1],
             filas |-> [filas EXCEPT ![chaves[i]] = Tail(@)],
             saida |-> << >>]
       ELSE visualizar_com_remover(filas, chaves, i + 1)

\* The for loop of visualizar_proxima_tarefa from position i of the sorted keys.
RECURSIVE visualizar_proxima_tarefa_de(_, _, _)
visualizar_proxima_tarefa_de(filas, chaves, i) ==
  IF i > Len(chaves)
  THEN [ret |-> None, filas |-> filas,
        saida |-> << [msg |-> "Nao ha tarefas pendentes"] >>]
  ELSE LET prioridade == chaves[i]
           fila == filas[prioridade]
       IN  IF ~esta_vazia(fila)
           THEN [ret |-> frente(fila), filas |-> filas, saida |-> << >>]
           ELSE visualizar_proxima_tarefa_de(filas, chaves, i + 1)

\* GerenciadorTarefas.visualizar_proxima_tarefa
visualizar_proxima_tarefa(filas) ==
  visualizar_proxima_tarefa_de(filas, sorted(DOMAIN filas), 1)

\* Faulty variant of estatisticas: por_prioridade leaves out the empty queues.
estatisticas_sem_vazias(filas) ==
  LET cheias == {p \in DOMAIN filas : Len(filas[p]) > 0}
  IN  [total |-> sum([p \in DOMAIN filas |-> Len(filas[p])], DOMAIN filas),
       por_prioridade |-> [prioridade \in cheias |-> Len(filas[prioridade])]]

\* GerenciadorTarefas.estatisticas: the dict it returns.
estatisticas(filas) ==
  LET total_tarefas == sum([p \in DOMAIN filas |-> tamanho(filas[p])], DOMAIN filas)
  IN  [total |-> total_tarefas,
       por_prioridade |-> [prioridade \in DOMAIN filas |-> tamanho(filas[prioridade])]]

\* The label of a class in listar_todas_tarefas: dict.get with a default.
prioridade_texto(prioridade) ==
  CASE prioridade = 1 -> "ALTA"
    [] prioridade = 2 -> "MEDIA"
    [] prioridade = 3 -> "BAIXA"
    [] OTHER -> "DESCONHECIDA"

\* The preview of a description: descricao[:50], then "..." when it is longer.
preview(descricao) ==
  IF Len(descricao) > PreviewLen
  THEN SubSeq(descricao, 1, PreviewLen) \o <<".", ".", ".">>
  ELSE descricao

\* The lines listar_todas_tarefas prints for one queue: its header, then its
\* tasks in list order, or the line saying that it has none.
linhas_da_fila(prioridade, tarefas) ==
  << [msg |-> "Prioridade", texto |-> prioridade_texto(prioridade),
      num_tarefas |-> tamanho(tarefas)] >>
  \o (IF esta_vazia(tarefas)
      THEN << [msg |-> "Nenhuma tarefa nesta categoria"] >>
      ELSE [i \in 1..Len(tarefas) |->
              [msg |-> "item", i |-> i, nome |-> tarefas[i].nome,
               descricao |-> preview(tarefas[i].descricao)]])

\* The for loop of listar_todas_tarefas from position i of the sorted keys,
\* with the total counted so far: the lines printed from there on.
RECURSIVE listar_de(_, _, _, _)
listar_de(filas, chaves, i, total_tarefas) ==
  IF i > Len(chaves)
  THEN << [msg |-> "Total", total_tarefas |-> total_tarefas] >>
  ELSE LET prioridade == chaves[i]
           fila == filas[prioridade]
       IN  linhas_da_fila(prioridade, fila)
           \o listar_de(filas, chaves, i + 1, total_tarefas + tamanho(fila))

\* Faulty variant of listar_todas_tarefas: walks each queue by removing its
\* tasks, and leaves the queues empty.
listar_esvaziando(filas) ==
  [ret |-> None, filas |-> [p \in DOMAIN filas |-> << >>],
   saida |-> listar_de(filas, sorted(DOMAIN filas), 1, 0)]

\* GerenciadorTarefas.listar_todas_tarefas: returns nothing, prints the list.
listar_todas_tarefas(filas) ==
  [ret |-> None, filas |-> filas,
   saida |-> listar_de(filas, sorted(DOMAIN filas), 1, 0)]

----------------------------------------------------------------------------
(* The state: the manager, the last call made on it, and the record of     *)
(* what the caller has submitted and received so far.                      *)

VARIABLES
  filas_prioridades,  \* self.filas_prioridades of the manager
  op,                 \* the method called last ("init" before any call)
  arg,                \* the Tarefa passed to the last call, None if it takes none
  ret,                \* the value the last call returned, None while the
                      \* submitting thread's call has not returned yet
  saida,              \* the lines the last call printed (so far, while the
                      \* submitting thread's call is running)
  criadas,            \* number of Tarefa objects constructed so far
  submetidas,         \* the tasks adicionar_tarefa returned True for, in call order
  rejeitadas,         \* the tasks adicionar_tarefa returned False for, in call order
  retornadas,         \* the tasks proxima_tarefa returned, in call order
  ultimo_vazio,       \* the value of criadas when proxima_tarefa last returned
                      \* None, -1 while it never has
  previsto,           \* after a proxima_tarefa call made right after a
                      \* visualizar_proxima_tarefa call, what that one returned
  configuracao,       \* the set of classes the caller wants the manager to have
  chamadas,           \* for each concurrent caller, where its proxima_tarefa
                      \* call stands
  submissao           \* where the adicionar_tarefa call of the submitting
                      \* thread stands, "fora" when it is in no call

vars == <<filas_prioridades, op, arg, ret, saida, criadas, submetidas,
          rejeitadas, retornadas, ultimo_vazio, previsto, configuracao,
          chamadas, submissao>>

\* What no call made by the single caller changes.
fora_da_chamada == <<configuracao, chamadas, submissao>>

\* The value of previsto when the last two calls were not
\* visualizar_proxima_tarefa and then proxima_tarefa.
NaoPrevisto == [tipo |-> "NaoPrevisto"]

\* Number of concurrent callers of proxima_tarefa.
NumChamadores == 2

Chamadores == 1..NumChamadores

\* The exception list.pop raises on an empty list.
IndexError == [tipo |-> "IndexError"]

\* A caller that is in no call and has made none.
SemChamada ==
  [pc |-> "fora", chaves |-> << >>, i |-> 0, viu |-> None, removida |-> None,
   ret |-> None, saida |-> << >>]

Init ==
  /\ filas_prioridades = GerenciadorTarefas
  /\ op = "init"
  /\ arg = None
  /\ ret = None
  /\ saida = << >>
  /\ criadas = 0
  /\ submetidas = << >>
  /\ rejeitadas = << >>
  /\ retornadas = << >>
  /\ ultimo_vazio = -1
  /\ previsto = NaoPrevisto
  /\ configuracao = DOMAIN GerenciadorTarefas
  /\ chamadas = [t \in Chamadores |-> SemChamada]
  /\ submissao = "fora"

\* The caller constructs a Tarefa, its nome and descricao drawn from entradas
\* and its prioridade from prioridades, and calls adicionar_tarefa with it.
AdicionarTarefaCom(entradas, prioridades) ==
  /\ criadas < MaxTarefas
  /\ \E e \in entradas, prioridade \in prioridades :
       LET tarefa == Tarefa(criadas + 1, e.nome, e.descricao, prioridade)
           r == adicionar_tarefa(filas_prioridades, tarefa)
       IN  /\ filas_prioridades' = r.filas
           /\ op' = "adicionar_tarefa"
           /\ arg' = tarefa
           /\ ret' = r.ret
           /\ saida' = r.saida
           /\ criadas' = criadas + 1
           /\ submetidas' = IF r.ret THEN Append(submetidas, tarefa) ELSE submetidas
           /\ rejeitadas' = IF r.ret THEN rejeitadas ELSE Append(rejeitadas, tarefa)
           /\ previsto' = NaoPrevisto
           /\ UNCHANGED <<retornadas, ultimo_vazio>>
           /\ UNCHANGED fora_da_chamada

\* The caller constructs a Tarefa and calls adicionar_tarefa with it.
AdicionarTarefa == AdicionarTarefaCom(Entradas, Prioridades)

\* The caller calls proxima_tarefa.
ProximaTarefa ==
  LET r == proxima_tarefa(filas_prioridades)
  IN  /\ filas_prioridades' = r.filas
      /\ op' = "proxima_tarefa"
      /\ arg' = None
      /\ ret' = r.ret
      /\ saida' = r.saida
      /\ retornadas' = IF r.ret # None THEN Append(retornadas, r.ret) ELSE retornadas
      /\ ultimo_vazio' = IF r.ret # None THEN ultimo_vazio ELSE criadas
      /\ previsto' = IF op = "visualizar_proxima_tarefa" THEN ret ELSE NaoPrevisto
      /\ UNCHANGED <<criadas, submetidas, rejeitadas>>
      /\ UNCHANGED fora_da_chamada

\* The caller calls visualizar_proxima_tarefa.
VisualizarProximaTarefa ==
  LET r == visualizar_proxima_tarefa(filas_prioridades)
  IN  /\ filas_prioridades' = r.filas
      /\ op' = "visualizar_proxima_tarefa"
      /\ arg' = None
      /\ ret' = r.ret
      /\ saida' = r.saida
      /\ previsto' = NaoPrevisto
      /\ UNCHANGED <<criadas, submetidas, rejeitadas, retornadas, ultimo_vazio>>
      /\ UNCHANGED fora_da_chamada

\* The caller calls estatisticas.
Estatisticas ==
  /\ op' = "estatisticas"
  /\ arg' = None
  /\ ret' = estatisticas(filas_prioridades)
  /\ saida' = << >>
  /\ previsto' = NaoPrevisto
  /\ UNCHANGED <<filas_prioridades, criadas, submetidas, rejeitadas, retornadas,
               ultimo_vazio>>
  /\ UNCHANGED fora_da_chamada

\* The caller calls listar_todas_tarefas.
ListarTodasTarefas ==
  LET r == listar_todas_tarefas(filas_prioridades)
  IN  /\ filas_prioridades' = r.filas
      /\ op' = "listar_todas_tarefas"
      /\ arg' = None
      /\ ret' = r.ret
      /\ saida' = r.saida
      /\ previsto' = NaoPrevisto
      /\ UNCHANGED <<criadas, submetidas, rejeitadas, retornadas, ultimo_vazio>>
      /\ UNCHANGED fora_da_chamada

Next ==
  \/ AdicionarTarefa
  \/ ProximaTarefa
  \/ VisualizarProximaTarefa
  \/ Estatisticas
  \/ ListarTodasTarefas

Spec == Init /\ [][Next]_vars

\* The tasks of the worked example: names A, B and C, classes 1 and 2.
EntradasExemplo ==
  { [nome |-> "A", descricao |-> <<"x">>],
    [nome |-> "B", descricao |-> <<"x">>],
    [nome |-> "C", descricao |-> <<"x">>] }

\* The caller submits one of the tasks of the worked example.
AdicionarTarefaExemplo == AdicionarTarefaCom(EntradasExemplo, {1, 2})

NextExemplo ==
  \/ AdicionarTarefaExemplo
  \/ ProximaTarefa
  \/ VisualizarProximaTarefa
  \/ Estatisticas
  \/ ListarTodasTarefas

\* The manager driven with the tasks of the worked example.
SpecExemplo == Init /\ [][NextExemplo]_vars

----------------------------------------------------------------------------
(* Concurrent threads.  No method takes a lock, so a call runs one line at  *)
(* a time and the lines of different threads interleave freely.  Each       *)
(* caller runs proxima_tarefa: the emptiness check of the loop (line 149),  *)
(* the emptiness check of remover (line 69), the pop (line 70), the return  *)
(* of None by remover (line 71), the return of what remover gave (line     *)
(* 150), the print (line 152) and the return of None (line 153) are         *)
(* separate steps.  The                                                     *)
(* submitting thread runs adicionar_tarefa: the membership test (line 129), *)
(* the append (line 134, through line 60), the print (line 135 or 130) and  *)
(* the return (line 136 or 131) are separate steps.  A list operation       *)
(* (append, pop, len) is indivisible.                                       *)

\* Number of tasks the submitting thread constructs and submits.
MaxSubmissoes == 2

\* The classes of the tasks the submitting thread constructs: class 2, which
\* a caller's loop finds after it has passed the empty queue of class 1, and
\* a class the manager has no queue for.
PrioridadesConcorrente == {2, 99}

\* What the other threads' steps leave alone of the submitting thread's call.
da_submissao == <<op, arg, ret, saida, criadas, submetidas, rejeitadas,
                  ultimo_vazio, previsto, configuracao, submissao>>

\* What the submitting thread's steps leave alone of the callers' calls.
dos_chamadores == <<chamadas, retornadas, ultimo_vazio, previsto, configuracao>>

\* Caller t ends its call with value v (None, a task, or IndexError raised).
Termina(t, v) ==
  /\ chamadas' = [chamadas EXCEPT ![t].pc = "fora", ![t].ret = v]
  /\ retornadas' = IF v \notin {None, IndexError}
                   THEN Append(retornadas, v) ELSE retornadas

\* Caller t enters proxima_tarefa and evaluates sorted(keys) (line 147).
Chamar(t) ==
  /\ chamadas[t].pc = "fora"
  /\ chamadas' = [chamadas EXCEPT ![t] =
                    [pc |-> "linha149", chaves |-> sorted(DOMAIN filas_prioridades),
                     i |-> 1, viu |-> None, removida |-> None, ret |-> None,
                     saida |-> << >>]]
  /\ UNCHANGED <<filas_prioridades, retornadas>>
  /\ UNCHANGED da_submissao

\* Caller t evaluates "if not fila.esta_vazia()" for the queue its loop is at
\* (lines 147-149); past the last queue the loop ends and line 152 is next.
Linha149(t) ==
  LET c == chamadas[t]
      fila == filas_prioridades[c.chaves[c.i]]
  IN  /\ c.pc = "linha149"
      /\ chamadas' =
           IF ~esta_vazia(fila)
           THEN [chamadas EXCEPT ![t].pc = "linha69", ![t].viu = fila[1]]
           ELSE IF c.i < Len(c.chaves)
                THEN [chamadas EXCEPT ![t].i = c.i + 1]
                ELSE [chamadas EXCEPT ![t].pc = "linha152"]
      /\ UNCHANGED <<filas_prioridades, retornadas>>
      /\ UNCHANGED da_submissao

\* Caller t prints that there are no pending tasks (line 152).
Linha152(t) ==
  /\ chamadas[t].pc = "linha152"
  /\ chamadas' = [chamadas EXCEPT
                    ![t].pc = "linha153",
                    ![t].saida = << [msg |-> "Nao ha tarefas pendentes"] >>]
  /\ UNCHANGED <<filas_prioridades, retornadas>>
  /\ UNCHANGED da_submissao

\* Caller t returns None (line 153).
Linha153(t) ==
  /\ chamadas[t].pc = "linha153"
  /\ Termina(t, None)
  /\ UNCHANGED filas_prioridades
  /\ UNCHANGED da_submissao

\* Caller t, inside remover, evaluates "if not self.esta_vazia()" (line 69).
Linha69(t) ==
  LET c == chamadas[t]
      fila == filas_prioridades[c.chaves[c.i]]
  IN  /\ c.pc = "linha69"
      /\ chamadas' = [chamadas EXCEPT ![t].pc =
                        IF ~esta_vazia(fila) THEN "linha70" ELSE "linha71"]
      /\ UNCHANGED <<filas_prioridades, retornadas>>
      /\ UNCHANGED da_submissao

\* Caller t executes self.tarefas.pop(0) (line 70): the task leaves the list
\* and the caller holds it, or holds the IndexError raised; the call has not
\* returned yet.
Linha70(t) ==
  LET c == chamadas[t]
      r == pop0(filas_prioridades[c.chaves[c.i]])
  IN  /\ c.pc = "linha70"
      /\ filas_prioridades' = [filas_prioridades EXCEPT ![c.chaves[c.i]] = r.tarefas]
      /\ chamadas' = [chamadas EXCEPT ![t].pc = "linha150", ![t].removida = r.ret]
      /\ UNCHANGED retornadas
      /\ UNCHANGED da_submissao

\* Caller t, inside remover, returns None (line 71).
Linha71(t) ==
  /\ chamadas[t].pc = "linha71"
  /\ chamadas' = [chamadas EXCEPT ![t].pc = "linha150", ![t].removida = None]
  /\ UNCHANGED <<filas_prioridades, retornadas>>
  /\ UNCHANGED da_submissao

\* The call of caller t returns what remover gave (line 150), or ends with
\* the IndexError that left remover.
Linha150(t) ==
  /\ chamadas[t].pc = "linha150"
  /\ Termina(t, chamadas[t].removida)
  /\ UNCHANGED filas_prioridades
  /\ UNCHANGED da_submissao

\* The submitting thread constructs a Tarefa and enters adicionar_tarefa with
\* it: the call has printed nothing and returned nothing yet.
Submeter ==
  /\ submissao = "fora"
  /\ criadas < MaxSubmissoes
  /\ \E prioridade \in PrioridadesConcorrente :
       arg' = Tarefa(criadas + 1, "A", <<"x">>, prioridade)
  /\ op' = "adicionar_tarefa"
  /\ ret' = None
  /\ saida' = << >>
  /\ criadas' = criadas + 1
  /\ submissao' = "linha129"
  /\ UNCHANGED <<filas_prioridades, submetidas, rejeitadas>>
  /\ UNCHANGED dos_chamadores

\* The submitting thread evaluates "tarefa.prioridade not in
\* self.filas_prioridades" (line 129).
Linha129 ==
  /\ submissao = "linha129"
  /\ submissao' = IF arg.prioridade \notin DOMAIN filas_prioridades
                  THEN "linha130" ELSE "linha134"
  /\ UNCHANGED <<filas_prioridades, op, arg, ret, saida, criadas, submetidas,
                 rejeitadas>>
  /\ UNCHANGED dos_chamadores

\* The submitting thread prints the error (line 130).
Linha130 ==
  /\ submissao = "linha130"
  /\ saida' = << [msg |-> "Erro: Prioridade invalida",
                  prioridade |-> arg.prioridade] >>
  /\ submissao' = "linha131"
  /\ UNCHANGED <<filas_prioridades, op, arg, ret, criadas, submetidas, rejeitadas>>
  /\ UNCHANGED dos_chamadores

\* adicionar_tarefa returns False (line 131).
Linha131 ==
  /\ submissao = "linha131"
  /\ ret' = FALSE
  /\ rejeitadas' = Append(rejeitadas, arg)
  /\ submissao' = "fora"
  /\ UNCHANGED <<filas_prioridades, op, arg, saida, criadas, submetidas>>
  /\ UNCHANGED dos_chamadores

\* The submitting thread appends the task to the queue of its class (line 134,
\* through line 60).
Linha134 ==
  /\ submissao = "linha134"
  /\ filas_prioridades' =
       [filas_prioridades EXCEPT ![arg.prioridade] = adicionar(@, arg)]
  /\ submissao' = "linha135"
  /\ UNCHANGED <<op, arg, ret, saida, criadas, submetidas, rejeitadas>>
  /\ UNCHANGED dos_chamadores

\* The submitting thread prints that the task was added (line 135).
Linha135 ==
  /\ submissao = "linha135"
  /\ saida' = << [msg |-> "Tarefa adicionada", nome |-> arg.nome,
                  prioridade |-> arg.prioridade] >>
  /\ submissao' = "linha136"
  /\ UNCHANGED <<filas_prioridades, op, arg, ret, criadas, submetidas, rejeitadas>>
  /\ UNCHANGED dos_chamadores

\* adicionar_tarefa returns True (line 136).
Linha136 ==
  /\ submissao = "linha136"
  /\ ret' = TRUE
  /\ submetidas' = Append(submetidas, arg)
  /\ submissao' = "fora"
  /\ UNCHANGED <<filas_prioridades, op, arg, saida, criadas, rejeitadas>>
  /\ UNCHANGED dos_chamadores

\* One line of the adicionar_tarefa call of the submitting thread.
AdicionarTarefaConcorrente ==
  \/ Submeter
  \/ Linha129
  \/ Linha130
  \/ Linha131
  \/ Linha134
  \/ Linha135
  \/ Linha136

NextConcorrente ==
  \/ AdicionarTarefaConcorrente
  \/ \E t \in Chamadores : Chamar(t)
  \/ \E t \in Chamadores : Linha149(t)
  \/ \E t \in Chamadores : Linha152(t)
  \/ \E t \in Chamadores : Linha153(t)
  \/ \E t \in Chamadores : Linha69(t)
  \/ \E t \in Chamadores : Linha70(t)
  \/ \E t \in Chamadores : Linha71(t)
  \/ \E t \in Chamadores : Linha150(t)

\* The manager with a submitting thread and concurrent callers of
\* proxima_tarefa.
SpecConcorrente == Init /\ [][NextConcorrente]_vars

----------------------------------------------------------------------------
\* A task of class 1, 2 or 3 is submitted.
AdicionarTarefaServico ==
  AdicionarTarefaCom({[nome |-> "A", descricao |-> <<"x">>]}, {1, 2, 3})

NextServico ==
  \/ AdicionarTarefaServico
  \/ ProximaTarefa
  \/ VisualizarProximaTarefa

\* The manager of a caller that keeps calling proxima_tarefa: a call that
\* would return a task is not put off forever.
SpecServico == Init /\ [][NextServico]_vars /\ WF_vars(ProximaTarefa)

----------------------------------------------------------------------------
\* Sets of classes a caller may want a manager for.
Configuracoes == { {1, 2, 3}, {1, 2}, {2, 4} }

\* A caller that wants a manager for one of these sets constructs it the one
\* way the class offers, GerenciadorTarefas(), which takes no set of classes.
InitConfiguracao ==
  /\ configuracao \in Configuracoes
  /\ filas_prioridades = GerenciadorTarefas
  /\ op = "init"
  /\ arg = None
  /\ ret = None
  /\ saida = << >>
  /\ criadas = 0
  /\ submetidas = << >>
  /\ rejeitadas = << >>
  /\ retornadas = << >>
  /\ ultimo_vazio = -1
  /\ previsto = NaoPrevisto
  /\ chamadas = [t \in Chamadores |-> SemChamada]
  /\ submissao = "fora"

\* That caller submits a task of a class from 1 to 4.
AdicionarTarefaConfiguracao ==
  AdicionarTarefaCom({[nome |-> "A", descricao |-> <<"x">>]}, {1, 2, 3, 4})

NextConfiguracao ==
  \/ AdicionarTarefaConfiguracao
  \/ ProximaTarefa
  \/ VisualizarProximaTarefa
  \/ Estatisticas
  \/ ListarTodasTarefas

\* The manager of a caller that wants a set of classes of its own.
SpecConfiguracao == InitConfiguracao /\ [][NextConfiguracao]_vars

----------------------------------------------------------------------------
(* Vocabulary of the properties.  These are written without the operators  *)
(* that model the methods, so that they say what a method has to do.       *)

\* The recognized classes: the keys the manager is constructed with.
Classes == DOMAIN GerenciadorTarefas

\* The set of the elements of a sequence.
Elementos(seq) == {seq[i] : i \in 1..Len(seq)}

\* The classes with a queue in dict f that holds some task.
NaoVazias(f) == {c \in DOMAIN f : Len(f[c]) > 0}

\* The numerically smallest class of a non-empty set of classes.
MenorClasse(S) == CHOOSE c \in S : \A d \in S : c <= d

\* The task the caller is owed next: the head of the queue of the smallest
\* non-empty class, None when every queue is empty.
Devida(f) ==
  IF NaoVazias(f) = {} THEN None ELSE f[MenorClasse(NaoVazias(f))][1]

\* The number of tasks in the queues of classes 1, 2 and 3.
Pendentes(f) == Len(f[1]) + Len(f[2]) + Len(f[3])

\* The places (class, position) where task t is held in dict f.
Lugares(f, t) ==
  {l \in UNION {{c} \X (1..Len(f[c])) : c \in DOMAIN f} : f[l[1]][l[2]] = t}

----------------------------------------------------------------------------
\* C1 - Strict cross-class order: whenever some queue holds a task,
\* proxima_tarefa returns the head of the queue of the numerically smallest
\* recognized class that is non-empty; a task of class c is never returned
\* while the queue of a class smaller than c holds a task, whatever the order
\* of submission.
C1_OrdemEstritaEntreClasses ==
  [][ (op' = "proxima_tarefa" /\ NaoVazias(filas_prioridades) # {}) =>
        LET c == MenorClasse(NaoVazias(filas_prioridades))
        IN  /\ c \in Classes
            /\ ret' = filas_prioridades[c][1]
            /\ ret'.prioridade = c
            /\ \A d \in Classes :
                 d < ret'.prioridade => filas_prioridades[d] = << >> ]_vars

\* proxima_tarefa has just returned a task while a task of a lower-priority
\* class that was submitted before it is still waiting.
C1_Witness ==
  /\ op = "proxima_tarefa"
  /\ ret # None
  /\ \E c \in Classes : \E k \in 1..Len(filas_prioridades[c]) :
       /\ c > ret.prioridade
       /\ filas_prioridades[c][k].id < ret.id

\* C2 - FIFO within a class: of two tasks submitted successfully with the same
\* prioridade, the one submitted first is returned by proxima_tarefa first:
\* whenever the later one has been returned, the earlier one was returned
\* before it, whatever calls were made in between.
C2_FifoDentroDaClasse ==
  \A i, j \in 1..Len(submetidas) :
    (i < j /\ submetidas[i].prioridade = submetidas[j].prioridade) =>
      \A k \in 1..Len(retornadas) :
        retornadas[k] = submetidas[j] =>
          \E m \in 1..(k - 1) : retornadas[m] = submetidas[i]

\* Two tasks of one class have both been returned, in their order of
\* submission, and a task of another class was submitted between them.
C2_Witness ==
  /\ op = "proxima_tarefa"
  /\ Len(retornadas) >= 2
  /\ \E k \in 1..(Len(retornadas) - 1) :
       /\ retornadas[k].prioridade = retornadas[k + 1].prioridade
       /\ retornadas[k].id + 1 < retornadas[k + 1].id

\* C3 - After any sequence of calls, estatisticas()["total"] is the number of
\* adicionar_tarefa calls that returned True minus the number of
\* proxima_tarefa calls that returned a task; rejected submissions and
\* proxima_tarefa calls that returned None do not count.
C3_TotalEhSubmetidasMenosRetornadas ==
  /\ estatisticas(filas_prioridades).total = Len(submetidas) - Len(retornadas)
  /\ op = "estatisticas" => ret.total = Len(submetidas) - Len(retornadas)

\* estatisticas has just reported a total of 1 after two accepted submissions,
\* one rejected submission, one proxima_tarefa that returned a task and one
\* that returned None.
C3_Witness ==
  /\ op = "estatisticas"
  /\ ret.total = 1
  /\ Len(submetidas) = 2
  /\ Len(rejeitadas) = 1
  /\ Len(retornadas) = 1
  /\ ultimo_vazio >= 0

\* C4 - Invalid class rejection: adicionar_tarefa with a task whose prioridade
\* is no recognized class returns False and prints the error, stores the task
\* in no queue, leaves every queue and estatisticas() as they were, and the
\* manager then still accepts a valid task and returns a task from
\* proxima_tarefa.
C4_RejeitaClasseInvalida ==
  [][ (op' = "adicionar_tarefa" /\ arg'.prioridade \notin Classes) =>
        /\ ret' = FALSE
        /\ saida' = << [msg |-> "Erro: Prioridade invalida",
                        prioridade |-> arg'.prioridade] >>
        /\ filas_prioridades' = filas_prioridades
        /\ DOMAIN filas_prioridades' = Classes
        /\ \A c \in Classes : arg' \notin Elementos(filas_prioridades'[c])
        /\ estatisticas(filas_prioridades') = estatisticas(filas_prioridades)
        /\ \A c \in Classes :
             LET t == Tarefa(criadas' + 1, "A", <<"x">>, c)
                 r == adicionar_tarefa(filas_prioridades', t)
             IN  /\ r.ret = TRUE
                 /\ t \in Elementos(r.filas[c])
                 /\ proxima_tarefa(r.filas).ret # None ]_vars

\* A submission was rejected while a task was waiting, and a task submitted
\* after the rejection has been accepted and returned by proxima_tarefa.
C4_Witness ==
  /\ Len(rejeitadas) = 1
  /\ rejeitadas[1].prioridade \notin Classes
  /\ \E t \in Elementos(submetidas) : t.id < rejeitadas[1].id
  /\ op = "proxima_tarefa"
  /\ ret # None
  /\ ret.id > rejeitadas[1].id

\* C5 - visualizar_proxima_tarefa is idempotent and has no side effect: it
\* leaves every queue and estatisticas() as they were, it returns the task
\* that is owed next (None when there is none), which the queues alone
\* decide, and called twice in a row it returns the same value twice.
C5_VisualizarSemEfeito ==
  [][ op' = "visualizar_proxima_tarefa" =>
        /\ filas_prioridades' = filas_prioridades
        /\ estatisticas(filas_prioridades') = estatisticas(filas_prioridades)
        /\ ret' = Devida(filas_prioridades)
        /\ ret' = Devida(filas_prioridades')
        /\ op = "visualizar_proxima_tarefa" => ret' = ret ]_vars

\* visualizar_proxima_tarefa has just returned a task of a class other than
\* the first, with two tasks waiting.
C5_Witness ==
  /\ op = "visualizar_proxima_tarefa"
  /\ ret # None
  /\ ret.prioridade > 1
  /\ Pendentes(filas_prioridades) >= 2

\* n calls of proxima_tarefa in a row from dict f: each returns a task, then
\* estatisticas() reports a total of 0 and 0 for every class, and one more
\* proxima_tarefa returns None.
RECURSIVE EsgotaEm(_, _)
EsgotaEm(f, n) ==
  IF n = 0
  THEN /\ estatisticas(f).total = 0
       /\ \A c \in Classes : estatisticas(f).por_prioridade[c] = 0
       /\ \A c \in Classes : f[c] = << >>
       /\ proxima_tarefa(f).ret = None
       /\ proxima_tarefa(f).filas = f
  ELSE /\ proxima_tarefa(f).ret # None
       /\ EsgotaEm(proxima_tarefa(f).filas, n - 1)

\* C6 - Exhaustion: from any reachable state, with n tasks pending, n calls of
\* proxima_tarefa in a row each return a task, after which estatisticas()
\* reports total 0 and 0 for every class, and one further call returns None.
C6_Exaustao ==
  EsgotaEm(filas_prioridades, Pendentes(filas_prioridades))

\* Every accepted task (at least two, of different classes) has been returned
\* and a further proxima_tarefa has just returned None.
C6_Witness ==
  /\ op = "proxima_tarefa"
  /\ ret = None
  /\ Len(retornadas) >= 2
  /\ Len(retornadas) = Len(submetidas)
  /\ retornadas[1].prioridade # retornadas[2].prioridade
  /\ Pendentes(filas_prioridades) = 0

\* C7 - In every reachable state estatisticas() has in por_prioridade exactly
\* one entry per recognized class, empty classes included, each the current
\* length of the queue of that class, and total is the sum of the entries;
\* the value a call returns is the one of the state it is made in.
C7_EstatisticasExatas ==
  LET s == estatisticas(filas_prioridades)
  IN  /\ DOMAIN s.por_prioridade = Classes
      /\ \A c \in Classes : s.por_prioridade[c] = Len(filas_prioridades[c])
      /\ s.total = s.por_prioridade[1] + s.por_prioridade[2] + s.por_prioridade[3]
      /\ s.total = Pendentes(filas_prioridades)
      /\ op = "estatisticas" => ret = s

\* estatisticas has just reported an empty class beside two non-empty ones.
C7_Witness ==
  /\ op = "estatisticas"
  /\ ret.total = 3
  /\ \E c \in Classes : ret.por_prioridade[c] = 0
  /\ \E c \in Classes : ret.por_prioridade[c] = 2
  /\ \E c \in Classes : ret.por_prioridade[c] = 1

\* C8 - Residency: every task submitted successfully and not yet returned by
\* proxima_tarefa is held at exactly one place, in the queue of the class
\* that is its prioridade; every task in the queue of class c has prioridade
\* c, and a task that was returned is held nowhere.
C8_Residencia ==
  /\ \A t \in Elementos(submetidas) :
       IF t \in Elementos(retornadas)
       THEN Lugares(filas_prioridades, t) = {}
       ELSE /\ Cardinality(Lugares(filas_prioridades, t)) = 1
            /\ \A l \in Lugares(filas_prioridades, t) : l[1] = t.prioridade
  /\ \A c \in DOMAIN filas_prioridades :
       \A k \in 1..Len(filas_prioridades[c]) :
         /\ filas_prioridades[c][k].prioridade = c
         /\ filas_prioridades[c][k] \in Elementos(submetidas)

\* Two tasks of different classes are waiting, neither in the first queue,
\* after another task was returned.
C8_Witness ==
  /\ Len(retornadas) = 1
  /\ Len(filas_prioridades[2]) = 1
  /\ Len(filas_prioridades[3]) = 1

\* C9 - Empty is a normal outcome: with every queue empty, proxima_tarefa and
\* visualizar_proxima_tarefa return None, print that no task is pending and
\* leave every queue and estatisticas() as they were; a valid task submitted
\* after that is accepted and is the task proxima_tarefa then returns.
C9_VazioEhNormal ==
  /\ [][ ( /\ Pendentes(filas_prioridades) = 0
           /\ op' \in {"proxima_tarefa", "visualizar_proxima_tarefa"} ) =>
           /\ ret' = None
           /\ saida' = << [msg |-> "Nao ha tarefas pendentes"] >>
           /\ filas_prioridades' = filas_prioridades
           /\ estatisticas(filas_prioridades') = estatisticas(filas_prioridades)
           /\ \A c \in Classes :
                LET t == Tarefa(criadas' + 1, "A", <<"x">>, c)
                    r == adicionar_tarefa(filas_prioridades', t)
                IN  /\ r.ret = TRUE
                    /\ proxima_tarefa(r.filas).ret = t ]_vars
  /\ [][ ( /\ ultimo_vazio = criadas
           /\ Pendentes(filas_prioridades) = 0
           /\ op' = "adicionar_tarefa"
           /\ arg'.prioridade \in Classes ) =>
           /\ ret' = TRUE
           /\ proxima_tarefa(filas_prioridades').ret = arg' ]_vars

\* proxima_tarefa returned None on empty queues, the next task constructed
\* was then accepted in a class other than the first, and proxima_tarefa has
\* just returned it.
C9_Witness ==
  /\ op = "proxima_tarefa"
  /\ ret # None
  /\ ultimo_vazio >= 0
  /\ ret.id = ultimo_vazio + 1
  /\ ret.prioridade > 1
  /\ retornadas = <<ret>>
  /\ submetidas = <<ret>>

\* C10 - listar_todas_tarefas is a read-only traversal: the ordered content
\* of every queue, estatisticas(), and what visualizar_proxima_tarefa and
\* proxima_tarefa return next are the same after the call as before it.
C10_ListarSoLeitura ==
  [][ op' = "listar_todas_tarefas" =>
        /\ filas_prioridades' = filas_prioridades
        /\ estatisticas(filas_prioridades') = estatisticas(filas_prioridades)
        /\ visualizar_proxima_tarefa(filas_prioridades').ret
             = visualizar_proxima_tarefa(filas_prioridades).ret
        /\ proxima_tarefa(filas_prioridades').ret
             = proxima_tarefa(filas_prioridades).ret
        /\ Devida(filas_prioridades') = Devida(filas_prioridades) ]_vars

\* listar_todas_tarefas has just listed three waiting tasks, two of them in
\* one queue.
C10_Witness ==
  /\ op = "listar_todas_tarefas"
  /\ Pendentes(filas_prioridades) = 3
  /\ \E c \in Classes : Len(filas_prioridades[c]) = 2
  /\ \E i \in 1..Len(saida) : saida[i].msg = "item" /\ saida[i].i = 2

\* The nome of each task of a sequence, in order.
Nomes(seq) == [i \in 1..Len(seq) |-> seq[i].nome]

\* The prioridade of each task of a sequence, in order.
Classe(seq) == [i \in 1..Len(seq) |-> seq[i].prioridade]

\* C11 - Example trace: on a manager that was empty, after A (class 1),
\* B (class 2) and C (class 1) were submitted in that order and before any
\* task is taken, three calls of proxima_tarefa return A, then C, then B,
\* and estatisticas() then reports total 0 and 0 for each of 1, 2 and 3.
C11_TracoDoExemplo ==
  ( /\ criadas = 3
    /\ Nomes(submetidas) = <<"A", "B", "C">>
    /\ Classe(submetidas) = <<1, 2, 1>>
    /\ retornadas = << >> ) =>
      LET r1 == proxima_tarefa(filas_prioridades)
          r2 == proxima_tarefa(r1.filas)
          r3 == proxima_tarefa(r2.filas)
      IN  /\ r1.ret = submetidas[1] /\ r1.ret.nome = "A"
          /\ r2.ret = submetidas[3] /\ r2.ret.nome = "C"
          /\ r3.ret = submetidas[2] /\ r3.ret.nome = "B"
          /\ estatisticas(r3.filas) =
               [total |-> 0, por_prioridade |-> (1 :> 0 @@ 2 :> 0 @@ 3 :> 0)]

\* A, B and C were submitted in classes 1, 2 and 1, proxima_tarefa returned
\* A, C and B, and estatisticas has just reported that nothing is left.
C11_Witness ==
  /\ Nomes(submetidas) = <<"A", "B", "C">>
  /\ Classe(submetidas) = <<1, 2, 1>>
  /\ Nomes(retornadas) = <<"A", "C", "B">>
  /\ op = "estatisticas"
  /\ ret = [total |-> 0, por_prioridade |-> (1 :> 0 @@ 2 :> 0 @@ 3 :> 0)]

\* C12 as stated - The manager is constructible with any finite set S the
\* caller supplies, each class starting with an empty queue: submit succeeds
\* exactly when the prioridade of the task is in S, and proxima_tarefa serves
\* the classes of S in ascending order.
C12_ComoEnunciada ==
  /\ [][ op' = "adicionar_tarefa" =>
           (ret' = TRUE <=> arg'.prioridade \in configuracao) ]_vars
  /\ [][ op' = "proxima_tarefa" =>
           ret' = IF \E c \in configuracao : c \in NaoVazias(filas_prioridades)
                  THEN filas_prioridades[
                         MenorClasse(configuracao \cap NaoVazias(filas_prioridades))][1]
                  ELSE None ]_vars

\* C12 as amended - The manager is constructed with the fixed set {1, 2, 3},
\* whatever set the caller wants, each class starting with an empty queue:
\* submit succeeds exactly when the prioridade of the task is in {1, 2, 3},
\* and proxima_tarefa serves the classes 1, 2, 3 in ascending order.
C12_ClassesFixas ==
  /\ [][ op = "init" =>
           /\ DOMAIN filas_prioridades = {1, 2, 3}
           /\ \A c \in {1, 2, 3} : filas_prioridades[c] = << >> ]_vars
  /\ [][ op' = "adicionar_tarefa" =>
           (ret' = TRUE <=> arg'.prioridade \in {1, 2, 3}) ]_vars
  /\ [][ op' = "proxima_tarefa" =>
           ret' = IF \E c \in {1, 2, 3} : Len(filas_prioridades[c]) > 0
                  THEN filas_prioridades[
                         MenorClasse({c \in {1, 2, 3} :
                                        Len(filas_prioridades[c]) > 0})][1]
                  ELSE None ]_vars

\* The caller wanted the classes {1, 2}; a task of class 3 was accepted all
\* the same, after one of class 4 was rejected, and proxima_tarefa has just
\* returned a task of class 2 ahead of it.
C12_Witness ==
  /\ configuracao = {1, 2}
  /\ op = "proxima_tarefa"
  /\ ret # None
  /\ ret.prioridade = 2
  /\ Len(filas_prioridades[3]) = 1
  /\ filas_prioridades[3][1].id < ret.id
  /\ Len(rejeitadas) = 1
  /\ rejeitadas[1].prioridade = 4

\* The callers that are inside a call and saw task x at the head of a queue
\* of one task when they checked that the queue is not empty.
ViramUnica(x) ==
  {t \in Chamadores :
     /\ chamadas[t].pc \in {"linha69", "linha70"}
     /\ chamadas[t].viu = x
     /\ filas_prioridades[x.prioridade] = <<x>>}

\* No task occurs twice among the tasks returned.
SemRetornoDuplo ==
  \A i, j \in 1..Len(retornadas) : i # j => retornadas[i] # retornadas[j]

\* C13 as stated - Under concurrent callers two proxima_tarefa calls never
\* both observe the same single remaining task as available, and no task is
\* returned by more than one call.
C13_ComoEnunciada ==
  /\ \A c \in DOMAIN filas_prioridades :
       Len(filas_prioridades[c]) = 1 =>
         Cardinality(ViramUnica(filas_prioridades[c][1])) <= 1
  /\ SemRetornoDuplo

\* C13 as amended - Under concurrent callers, for every interleaving of the
\* emptiness checks and the removal, no task is returned by more than one
\* call: of two calls that saw the same task available at most one returns
\* it, and the other returns another task or None, or ends with IndexError.
C13_SemRetornoDuplo ==
  /\ SemRetornoDuplo
  /\ \A t \in Chamadores :
       ( /\ chamadas[t].pc = "linha150"
         /\ chamadas[t].removida \notin {None, IndexError} ) =>
           /\ chamadas[t].removida \notin Elementos(retornadas)
           /\ \A u \in Chamadores \ {t} :
                chamadas[u].pc = "linha150" =>
                  chamadas[u].removida # chamadas[t].removida
  /\ \A t, u \in Chamadores :
       ( /\ t # u
         /\ chamadas[t].pc = "fora" /\ chamadas[u].pc = "fora"
         /\ chamadas[t].viu # None
         /\ chamadas[t].viu = chamadas[u].viu
         /\ chamadas[t].ret = chamadas[t].viu ) =>
           /\ chamadas[u].ret # chamadas[u].viu
           /\ \/ chamadas[u].ret \in {None, IndexError}
              \/ chamadas[u].ret \in Elementos(retornadas)

\* Two calls saw the same task at the head of a queue; one has returned it
\* and the other has ended with IndexError.
C13_Witness ==
  \E t, u \in Chamadores :
    /\ t # u
    /\ chamadas[t].pc = "fora" /\ chamadas[u].pc = "fora"
    /\ chamadas[t].viu # None
    /\ chamadas[t].viu = chamadas[u].viu
    /\ chamadas[t].ret = chamadas[t].viu
    /\ chamadas[u].ret = IndexError
    /\ retornadas = <<chamadas[t].viu>>

\* C14 - visualizar_proxima_tarefa predicts proxima_tarefa: a proxima_tarefa
\* call made right after a visualizar_proxima_tarefa call returns exactly
\* what that call returned, a task or None; in every reachable state the two
\* methods would return the same value.
C14_VisualizarPrediz ==
  /\ [][ (op = "visualizar_proxima_tarefa" /\ op' = "proxima_tarefa") =>
           /\ ret' = ret
           /\ (ret' = None) <=> (ret = None)
           /\ previsto' = ret' ]_vars
  /\ [](visualizar_proxima_tarefa(filas_prioridades).ret
          = proxima_tarefa(filas_prioridades).ret)

\* proxima_tarefa has just returned the second task of a queue other than the
\* first, the task visualizar_proxima_tarefa returned right before it.
C14_Witness ==
  /\ op = "proxima_tarefa"
  /\ previsto # NaoPrevisto
  /\ previsto # None
  /\ ret = previsto
  /\ ret.prioridade > 1
  /\ \E k \in 1..Len(retornadas) - 1 :
       /\ retornadas[k].prioridade = ret.prioridade
       /\ retornadas[k].id < ret.id
  /\ Pendentes(filas_prioridades) >= 1

\* C15 - Effect and frame of a successful submit: adicionar_tarefa with a
\* task whose prioridade is a recognized class c returns True, the queue of c
\* becomes what it was with the task appended at the tail, the queue of every
\* other class is unchanged, and estatisticas()["total"] grows by exactly one.
C15_EfeitoDeAdicionar ==
  [][ (op' = "adicionar_tarefa" /\ arg'.prioridade \in Classes) =>
        LET c == arg'.prioridade
        IN  /\ ret' = TRUE
            /\ filas_prioridades'[c] = filas_prioridades[c] \o <<arg'>>
            /\ \A d \in Classes \ {c} :
                 filas_prioridades'[d] = filas_prioridades[d]
            /\ DOMAIN filas_prioridades' = DOMAIN filas_prioridades
            /\ estatisticas(filas_prioridades').total
                 = estatisticas(filas_prioridades).total + 1 ]_vars

\* A task has just been accepted at the tail of a queue that already held a
\* task, while another queue holds a task too.
C15_Witness ==
  /\ op = "adicionar_tarefa"
  /\ ret = TRUE
  /\ Len(filas_prioridades[arg.prioridade]) = 2
  /\ filas_prioridades[arg.prioridade][2] = arg
  /\ \E d \in Classes \ {arg.prioridade} : Len(filas_prioridades[d]) = 1

\* C16 - Effect and frame of proxima_tarefa: a call that returns a task
\* removes exactly that task from the head of exactly one queue, leaves the
\* rest of that queue in its order and every other queue as it was, and
\* lowers estatisticas()["total"] by exactly one.
C16_EfeitoDeProxima ==
  [][ (op' = "proxima_tarefa" /\ ret' # None) =>
        /\ \E c \in Classes :
             /\ filas_prioridades[c] = <<ret'>> \o filas_prioridades'[c]
             /\ \A d \in Classes \ {c} :
                  filas_prioridades'[d] = filas_prioridades[d]
        /\ DOMAIN filas_prioridades' = DOMAIN filas_prioridades
        /\ Lugares(filas_prioridades', ret') = {}
        /\ estatisticas(filas_prioridades').total
             = estatisticas(filas_prioridades).total - 1 ]_vars

\* proxima_tarefa has just returned the head of a queue that keeps a task,
\* while another queue holds a task too.
C16_Witness ==
  /\ op = "proxima_tarefa"
  /\ ret # None
  /\ Len(filas_prioridades[ret.prioridade]) = 1
  /\ filas_prioridades[ret.prioridade][1].id > ret.id
  /\ \E d \in Classes \ {ret.prioridade} : Len(filas_prioridades[d]) = 1

\* C17 - The set of recognized classes is fixed at construction: after any
\* sequence of calls, accepted or rejected, the key set of filas_prioridades
\* is the one it had at construction, and no call changes it.
C17_ClassesFixasNaConstrucao ==
  /\ [](DOMAIN filas_prioridades = DOMAIN GerenciadorTarefas)
  /\ [][DOMAIN filas_prioridades' = DOMAIN filas_prioridades]_vars
  /\ [](DOMAIN estatisticas(filas_prioridades).por_prioridade
          = DOMAIN GerenciadorTarefas)

\* A submission was rejected, a task was accepted, returned, and the queues
\* are empty again; listar_todas_tarefas has just run.
C17_Witness ==
  /\ Len(rejeitadas) >= 1
  /\ Len(retornadas) >= 1
  /\ Pendentes(filas_prioridades) = 0
  /\ op = "listar_todas_tarefas"
  /\ DOMAIN filas_prioridades = {1, 2, 3}

\* How many times x occurs in a sequence.
Conta(seq, x) == Cardinality({i \in 1..Len(seq) : seq[i] = x})

\* The tasks held in the queues of dict f.
Guardadas(f) == UNION {Elementos(f[c]) : c \in DOMAIN f}

\* C18 - Conservation of tasks: after any sequence of calls every task occurs
\* among the tasks submitted successfully as often as in the queues and among
\* the tasks returned by proxima_tarefa together; no submitted task is lost
\* and none is returned more often than it was submitted.
C18_Conservacao ==
  \A x \in Elementos(submetidas) \cup Elementos(retornadas)
             \cup Guardadas(filas_prioridades) :
    /\ Conta(submetidas, x)
         = Conta(retornadas, x)
           + Conta(filas_prioridades[1], x) + Conta(filas_prioridades[2], x)
           + Conta(filas_prioridades[3], x)
    /\ Conta(retornadas, x) <= Conta(submetidas, x)

\* Of three accepted tasks two have been returned and one is waiting.
C18_Witness ==
  /\ Len(submetidas) = 3
  /\ Len(retornadas) = 2
  /\ Pendentes(filas_prioridades) = 1
  /\ op = "proxima_tarefa"

\* Task x has the nome, descricao and prioridade of the task of sequence seq
\* that is the same object.
ComoEm(seq, x) ==
  \E i \in 1..Len(seq) :
    /\ seq[i].id = x.id
    /\ seq[i].nome = x.nome
    /\ seq[i].descricao = x.descricao
    /\ seq[i].prioridade = x.prioridade

\* C19 - No call modifies a task: every task held in a queue, and every task
\* proxima_tarefa or visualizar_proxima_tarefa returns, has the nome,
\* descricao and prioridade it was submitted with, and no call changes a
\* task that stays in the queues.
C19_TarefaImutavel ==
  /\ [](\A x \in Guardadas(filas_prioridades) \cup Elementos(retornadas) :
          ComoEm(submetidas, x))
  /\ []((op \in {"proxima_tarefa", "visualizar_proxima_tarefa"} /\ ret # None)
          => ComoEm(submetidas, ret))
  /\ [][\A x \in Guardadas(filas_prioridades') :
          \A y \in Guardadas(filas_prioridades) : x.id = y.id => x = y]_vars

\* proxima_tarefa has just returned a task named B with the two-character
\* descricao, after listar_todas_tarefas and other calls saw it in a queue.
C19_Witness ==
  /\ op = "proxima_tarefa"
  /\ ret # None
  /\ ret.nome = "B"
  /\ ret.descricao = <<"x", "y">>
  /\ ret.prioridade = 3
  /\ ret.id = 1
  /\ Len(retornadas) = 3

\* The task of the queues of dict f that is object number n, None if there
\* is none.
Pendente(f, n) ==
  IF \E x \in Guardadas(f) : x.id = n
  THEN CHOOSE x \in Guardadas(f) : x.id = n
  ELSE None

\* The number of proxima_tarefa calls a task x held in dict f has to wait
\* for: the tasks in the queues of smaller classes, the tasks ahead of it in
\* its own queue, and one.
Espera(f, x) ==
  LET c == x.prioridade
      k == CHOOSE i \in 1..Len(f[c]) : f[c][i] = x
      antes == [d \in DOMAIN f |-> IF d < c THEN Len(f[d]) ELSE 0]
  IN  antes[1] + antes[2] + antes[3] + (k - 1) + 1

\* C20 - Conditional service guarantee: a pending task of class c is in the
\* end returned when proxima_tarefa keeps being called and, from some point
\* on, no task of a class up to c is submitted: no task stays pending for
\* ever, and a task leaves the queues only as the value proxima_tarefa
\* returns.  The calls it takes are the tasks in smaller classes plus the
\* tasks ahead of it in class c plus one: while submissions are of classes
\* above c each call that returns a task lowers that number by one, the call
\* made when it is one returns the task, and no other call changes it.
C20_GarantiaDeServico ==
  /\ \A n \in 1..MaxTarefas : []<>(Pendente(filas_prioridades, n) = None)
  /\ [][ \A x \in Guardadas(filas_prioridades) :
           LET e == Espera(filas_prioridades, x)
           IN  /\ x \notin Guardadas(filas_prioridades') =>
                    (op' = "proxima_tarefa" /\ ret' = x /\ e = 1)
               /\ op' = "proxima_tarefa" =>
                    IF e = 1
                    THEN ret' = x /\ x \notin Guardadas(filas_prioridades')
                    ELSE /\ ret' # x
                         /\ x \in Guardadas(filas_prioridades')
                         /\ Espera(filas_prioridades', x) = e - 1
               /\ (op' = "adicionar_tarefa" /\ arg'.prioridade > x.prioridade) =>
                    Espera(filas_prioridades', x) = e
               /\ op' = "visualizar_proxima_tarefa" =>
                    Espera(filas_prioridades', x) = e ]_vars

\* The task submitted first, of class 3, had two tasks of classes 1 and 2
\* submitted after it and served before it; the third proxima_tarefa call
\* has just returned it.
C20_Witness ==
  /\ op = "proxima_tarefa"
  /\ ret # None
  /\ ret.id = 1
  /\ ret.prioridade = 3
  /\ Len(retornadas) = 3
  /\ retornadas[1].prioridade < 3
  /\ retornadas[2].prioridade < 3

====
